---- MODULE Spec2Model ----
(***************************************************************************)
(* Live preview server of claude-mermaid: the singleton HTTP/WebSocket     *)
(* server (ensureLiveServer, closeLiveServer), the registry of live        *)
(* diagrams with their file watchers (addLiveDiagram, notifyClients,       *)
(* hasActiveConnections), the WebSocket connection handler, the           *)
(* mermaid_preview tool's setupLivePreview with the preview page, and the  *)
(* HTTP request handler with its routes in serve mode.                     *)
(*                                                                         *)
(* Node runs one handler turn at a time; every `await` of the source is a  *)
(* point where other turns may run, so each action below is the code       *)
(* between two suspension points.                                          *)
(***************************************************************************)
EXTENDS Integers, FiniteSets, Sequences, TLC

\* ---------------------------------------------------------------- bounds
MaxCallers == 2
MaxWatchers == 2
MaxConns == 2
MaxViewers == 1
MaxRecv == 1
MaxTabs == 2

\* ------------------------------------------------------ program constants
SERVER_PORT_START == 3737
SERVER_PORT_END == 3747

Ports == SERVER_PORT_START..SERVER_PORT_END
IDs == {"arch", "flow"}
Paths == {"p1", "p2"}
Callers == 1..MaxCallers
ConnIds == 1..MaxConns
ViewerIds == 1..MaxViewers
TabIds == 1..MaxTabs
RenderIds == Callers

VARIABLES
  liveServer,      \* let liveServer: 0 is null, else the index of the server in servers
  liveServerPort,  \* let liveServerPort: 0 is null
  wss,             \* let wss: 0 is null, else the index of the server it is attached to
  servers,         \* every http server created: port, whether it is bound, whether its wss accepts upgrades
  extBound,        \* ports held by other processes
  callers,         \* the invocations of ensureLiveServer in flight
  closer,          \* the position of the invocation of closeLiveServer
  crashed,         \* an exception left a callback uncaught and ended the process
  diagrams,        \* const diagrams = new Map<string, DiagramState>()
  watchers,        \* the FSWatchers that are not closed: the diagram each was created for
  nWatchers,       \* number of FSWatchers created so far
  conns,           \* the WebSocket connections
  renders,         \* the invocations of handleMermaidPreview in flight
  tabs,            \* the browser tabs showing a preview page
  disk,            \* the files that exist, as paths relative to the live directory
  http,            \* the last HTTP request the server handled, with its response
  wsState          \* the script of one preview page: const wsState and its WebSocket objects

serverVars == <<liveServer, liveServerPort, wss, servers, extBound, callers, closer, crashed>>
registryVars == <<diagrams, watchers, nWatchers>>
connVars == <<conns>>
previewVars == <<renders, tabs>>
httpVars == <<disk, http>>
pageVars == <<wsState>>
vars == <<serverVars, registryVars, connVars, previewVars, httpVars, pageVars>>

EmptyMap == [x \in {} |-> TRUE]
NoCaller == [pc |-> "idle", port |-> 0, ret |-> 0]
NoRender == [pc |-> "idle", id |-> ""]
NoTab == [st |-> "none", id |-> "", conn |-> 0]
\* set and watcher are the clients and the watcher of the DiagramState the
\* connection handler read: the state its "close" handler closes over.
\* ord is the position of the connection in the insertion order of its set.
NoConn == [st |-> "none", url |-> "", srv |-> 0, set |-> 0, watcher |-> 0, ord |-> 0, recv |-> 0]
\* The page before its script runs: wsState of script.js with the port of the
\* page's data attributes, the state of each WebSocket object the script
\* created, and attempts, the number of connectWebSocket calls the timer made
\* since the page loaded or a connection last opened.
NoPage == [loaded |-> FALSE, port |-> 0, connection |-> 0, reconnectInterval |-> FALSE,
           reconnectAttempts |-> 0, attempts |-> 0, sock |-> [k \in ConnIds |-> "none"]]

\* The module state after load. Other processes may hold none of the ports,
\* the first one, all but the last one, or the whole range.
InitProgram ==
  /\ liveServer = 0
  /\ liveServerPort = 0
  /\ wss = 0
  /\ servers = <<>>
  /\ extBound \in {{}, {SERVER_PORT_START}, Ports \ {SERVER_PORT_END}, Ports}
  /\ callers = [c \in Callers |-> NoCaller]
  /\ closer = "idle"
  /\ crashed = FALSE
  /\ diagrams = EmptyMap
  /\ watchers = EmptyMap
  /\ nWatchers = 0
  /\ conns = [k \in ConnIds |-> NoConn]
  /\ renders = [r \in RenderIds |-> NoRender]
  /\ tabs = [t \in TabIds |-> NoTab]
  /\ wsState = NoPage

\* The process with an empty live directory and no request handled.
Init ==
  /\ InitProgram
  /\ disk = {}
  /\ http = [req |-> [method |-> "", url |-> ""],
             res |-> [handler |-> "", id |-> "", status |-> 0, ctype |-> "", csp |-> "",
                      body |-> "", live |-> FALSE, read |-> {}, looked |-> {}, removed |-> {}],
             page |-> "none"]

\* ------------------------------------------------------------ port binding
\* The ports some socket of this process holds: probe servers and bound servers.
OwnBound ==
  {callers[c].port : c \in {x \in Callers : callers[x].pc = "probing"}}
    \cup {servers[s].port : s \in {x \in 1..Len(servers) : servers[x].bound}}

PortFree(p) == p \notin extBound /\ p \notin OwnBound

\* ------------------------------------------------------- findAvailablePort
\* A probe that takes every port for free.
TryProbeBlind(c, p) == [callers[c] EXCEPT !.pc = "probing", !.port = p]

\* testServer.listen(port): the bind happens in the call; its outcome is
\* reported by the "listening" or the "error" event of a later turn.
TryProbe(c, p) ==
  IF PortFree(p)
    THEN [callers[c] EXCEPT !.pc = "probing", !.port = p]
    ELSE [callers[c] EXCEPT !.pc = "probeFailed", !.port = p]

\* ------------------------------------------------------- ensureLiveServer
\* ensureLiveServer without the test for a running server.
CallEnsureProbe(c) == TryProbe(c, SERVER_PORT_START)

\* The call up to its first suspension: reuse the running server, or start
\* probing at SERVER_PORT_START.
CallEnsure(c) ==
  IF liveServer # 0 /\ liveServerPort # 0
    THEN [pc |-> "done", port |-> 0, ret |-> liveServerPort]
    ELSE TryProbe(c, SERVER_PORT_START)

\* A call of ensureLiveServer from outside the preview tool (serve mode).
EnsureCall(c) ==
  /\ callers[c].pc = "idle"
  /\ callers' = [callers EXCEPT ![c] = CallEnsure(c)]
  /\ UNCHANGED <<liveServer, liveServerPort, wss, servers, extBound, crashed, closer>>
  /\ UNCHANGED <<registryVars, connVars, previewVars, httpVars, pageVars>>

\* "listening" of the probe: testServer.close(() => resolve()); return port.
ProbeListening(c) ==
  /\ callers[c].pc = "probing"
  /\ callers' = [callers EXCEPT ![c].pc = "found"]
  /\ UNCHANGED <<liveServer, liveServerPort, wss, servers, extBound, crashed, closer>>
  /\ UNCHANGED <<registryVars, connVars, previewVars, httpVars, pageVars>>

\* A startup that records the last port tried when the range is exhausted.
ProbeErrorLeak(c) ==
  /\ callers[c].pc = "probeFailed"
  /\ IF callers[c].port + 1 <= SERVER_PORT_END
       THEN /\ callers' = [callers EXCEPT ![c] = TryProbe(c, callers[c].port + 1)]
            /\ UNCHANGED liveServerPort
       ELSE /\ callers' = [callers EXCEPT ![c] = [pc |-> "failed", port |-> 0, ret |-> 0]]
            /\ liveServerPort' = callers[c].port
  /\ UNCHANGED <<liveServer, wss, servers, extBound, crashed, closer>>
  /\ UNCHANGED <<registryVars, connVars, previewVars, httpVars, pageVars>>

\* findAvailablePort that starts over after the last port.
ProbeErrorWrap(c) ==
  /\ callers[c].pc = "probeFailed"
  /\ IF callers[c].port + 1 <= SERVER_PORT_END
       THEN callers' = [callers EXCEPT ![c] = TryProbe(c, callers[c].port + 1)]
       ELSE callers' = [callers EXCEPT ![c] = TryProbe(c, SERVER_PORT_START)]
  /\ UNCHANGED <<liveServer, liveServerPort, wss, servers, extBound, crashed, closer>>
  /\ UNCHANGED <<registryVars, connVars, previewVars, httpVars, pageVars>>

\* findAvailablePort whose loop has no upper limit.
ProbeErrorPast(c) ==
  /\ callers[c].pc = "probeFailed"
  /\ callers' = [callers EXCEPT ![c] = TryProbe(c, callers[c].port + 1)]
  /\ UNCHANGED <<liveServer, liveServerPort, wss, servers, extBound, crashed, closer>>
  /\ UNCHANGED <<registryVars, connVars, previewVars, httpVars, pageVars>>

\* "error" of the probe: catch, continue with the next port, or throw after
\* the last one.
ProbeError(c) ==
  /\ callers[c].pc = "probeFailed"
  /\ IF callers[c].port + 1 <= SERVER_PORT_END
       THEN callers' = [callers EXCEPT ![c] = TryProbe(c, callers[c].port + 1)]
       ELSE callers' = [callers EXCEPT ![c] = [pc |-> "failed", port |-> 0, ret |-> 0]]
  /\ UNCHANGED <<liveServer, liveServerPort, wss, servers, extBound, crashed, closer>>
  /\ UNCHANGED <<registryVars, connVars, previewVars, httpVars, pageVars>>

\* After findAvailablePort: liveServer = createServer(...); wss = new
\* WebSocketServer({server: liveServer}); liveServer.listen(port, cb).
\* A failed bind raises "error" on the server and cb never runs.
CreateServer(c) ==
  /\ callers[c].pc = "found"
  /\ LET free == PortFree(callers[c].port)
         s == Len(servers) + 1
     IN /\ servers' = Append(servers, [port |-> callers[c].port, bound |-> free, wssOpen |-> TRUE])
        /\ liveServer' = s
        /\ wss' = s
        /\ callers' = [callers EXCEPT ![c].pc = IF free THEN "listening" ELSE "bindError"]
  /\ UNCHANGED <<liveServerPort, extBound, crashed, closer>>
  /\ UNCHANGED <<registryVars, connVars, previewVars, httpVars, pageVars>>

\* The listen callback: liveServerPort = port; resolve(); return port.
\* "listening" is emitted only by a server that still holds its handle.
ListenCallback(c) ==
  /\ callers[c].pc = "listening"
  /\ \E s \in 1..Len(servers) : servers[s].port = callers[c].port /\ servers[s].bound
  /\ liveServerPort' = callers[c].port
  /\ callers' = [callers EXCEPT ![c].pc = "done", ![c].ret = callers[c].port]
  /\ UNCHANGED <<liveServer, wss, servers, extBound, crashed, closer>>
  /\ UNCHANGED <<registryVars, connVars, previewVars, httpVars, pageVars>>

\* The caller has its answer (a port or the thrown error) and may call again.
EnsureReturn(c) ==
  /\ callers[c].pc \in {"done", "failed"}
  /\ c \in RenderIds => renders[c].pc = "idle"
  /\ callers' = [callers EXCEPT ![c] = NoCaller]
  /\ UNCHANGED <<liveServer, liveServerPort, wss, servers, extBound, crashed, closer>>
  /\ UNCHANGED <<registryVars, connVars, previewVars, httpVars, pageVars>>

Ensure(c) ==
  \/ EnsureCall(c)
  \/ ProbeListening(c)
  \/ ProbeError(c)
  \/ CreateServer(c)
  \/ ListenCallback(c)

\* Concurrent callers of ensureLiveServer, each calling again after its answer.
NextStartup == \E c \in Callers : Ensure(c) \/ EnsureReturn(c)

SpecStartup == Init /\ [][NextStartup]_vars

\* The event loop delivers the "error" event of every probe whose bind failed.
SpecStartupFair == SpecStartup /\ \A c \in Callers : WF_vars(ProbeError(c))

\* Another process binds port p, which no socket holds.
ExternalBind(p) ==
  /\ PortFree(p)
  /\ extBound' = extBound \cup {p}
  /\ UNCHANGED <<liveServer, liveServerPort, wss, servers, callers, closer, crashed>>
  /\ UNCHANGED <<registryVars, connVars, previewVars, httpVars, pageVars>>

\* The "error" event of liveServer after a failed bind. The only listener is
\* the one the WebSocketServer attached to its server, which emits "error" on
\* wss; wss has no "error" listener, so the emit throws, nothing catches it and
\* the process ends. The promise around listen has no reject path and is never
\* settled.
BindError(c) ==
  /\ callers[c].pc = "bindError"
  /\ ~crashed
  /\ crashed' = TRUE
  /\ UNCHANGED <<liveServer, liveServerPort, wss, servers, extBound, callers, closer>>
  /\ UNCHANGED <<registryVars, connVars, previewVars, httpVars, pageVars>>

\* One caller of ensureLiveServer while other processes bind ports of the
\* range. A caller whose bind failed takes no step after the process ended.
NextRace ==
  \/ Ensure(1)
  \/ EnsureReturn(1)
  \/ BindError(1)
  \/ \E p \in Ports : ExternalBind(p)

SpecRace == Init /\ [][NextRace]_vars

\* --------------------------------------------------------------- registry
\* The members of a Set<WebSocket> object: a connection is added to one set
\* (the clients of the state read at connect time) and deleted from that one.
\* A Set object is named by the number of the watcher created with it.
Clients(set) == {k \in ConnIds : conns[k].set = set}

\* hasActiveConnections that answers for the registration alone.
HasRegistration(id) == id \in DOMAIN diagrams

\* hasActiveConnections(diagramId)
HasActiveConnections(id) ==
  IF id \in DOMAIN diagrams THEN Clients(diagrams[id].clients) # {} ELSE FALSE

\* watcher.close() of every watcher in ws
CloseWatchers(ws) == [w \in DOMAIN watchers \ ws |-> watchers[w]]

\* watch(filePath, callback): the open watchers with the new one
Watch(open, id) == [w \in DOMAIN open \cup {nWatchers + 1} |-> IF w = nWatchers + 1 THEN id ELSE open[w]]

\* addLiveDiagram without the close of the watcher it replaces.
RegisterLeak(id, filePath, watchOk) ==
  /\ nWatchers < MaxWatchers
  /\ LET isUpdate == id \in DOMAIN diagrams
         existingClients == IF isUpdate THEN diagrams[id].clients ELSE nWatchers + 1
     IN IF watchOk
          THEN /\ watchers' = Watch(watchers, id)
               /\ nWatchers' = nWatchers + 1
               /\ diagrams' = [x \in DOMAIN diagrams \cup {id} |->
                                 IF x = id
                                   THEN [filePath |-> filePath, watcher |-> nWatchers + 1,
                                         clients |-> existingClients]
                                   ELSE diagrams[x]]
          ELSE UNCHANGED <<watchers, nWatchers, diagrams>>

\* addLiveDiagram that gives the diagram a new client set on every call.
RegisterDrop(id, filePath, watchOk) ==
  /\ nWatchers < MaxWatchers
  /\ LET isUpdate == id \in DOMAIN diagrams
         closed == IF isUpdate THEN CloseWatchers({diagrams[id].watcher}) ELSE watchers
     IN IF watchOk
          THEN /\ watchers' = Watch(closed, id)
               /\ nWatchers' = nWatchers + 1
               /\ diagrams' = [x \in DOMAIN diagrams \cup {id} |->
                                 IF x = id
                                   THEN [filePath |-> filePath, watcher |-> nWatchers + 1,
                                         clients |-> nWatchers + 1]
                                   ELSE diagrams[x]]
          ELSE /\ watchers' = closed
               /\ UNCHANGED <<nWatchers, diagrams>>

\* The body of addLiveDiagram(diagramId, filePath), which has no suspension
\* point. watchOk is whether watch(filePath, ...) returns a watcher or throws.
Register(id, filePath, watchOk) ==
  /\ nWatchers < MaxWatchers
  /\ LET isUpdate == id \in DOMAIN diagrams
         existingClients == IF isUpdate THEN diagrams[id].clients ELSE nWatchers + 1
         closed == IF isUpdate THEN CloseWatchers({diagrams[id].watcher}) ELSE watchers
     IN IF watchOk
          THEN /\ watchers' = Watch(closed, id)
               /\ nWatchers' = nWatchers + 1
               /\ diagrams' = [x \in DOMAIN diagrams \cup {id} |->
                                 IF x = id
                                   THEN [filePath |-> filePath, watcher |-> nWatchers + 1,
                                         clients |-> existingClients]
                                   ELSE diagrams[x]]
          ELSE /\ watchers' = closed
               /\ UNCHANGED <<nWatchers, diagrams>>

\* A call of addLiveDiagram from outside the preview tool (serve mode).
AddLiveDiagram(id, filePath, watchOk) ==
  /\ Register(id, filePath, watchOk)
  /\ UNCHANGED <<serverVars, connVars, previewVars, httpVars, pageVars>>

\* notifyClients that sends to the open connections of every session.
NotifyClientsBroadcast(id) ==
  [k \in ConnIds |->
     IF conns[k].set # 0 /\ conns[k].st = "open"
       THEN [conns[k] EXCEPT !.recv = conns[k].recv + 1]
       ELSE conns[k]]

\* notifyClients that sends without looking at readyState.
NotifyClientsAll(id) ==
  IF id \notin DOMAIN diagrams
    THEN conns
    ELSE [k \in ConnIds |->
            IF k \in Clients(diagrams[id].clients)
              THEN [conns[k] EXCEPT !.recv = conns[k].recv + 1]
              ELSE conns[k]]

\* notifyClients(diagramId): the connections after the reload was sent.
NotifyClients(id) ==
  IF id \notin DOMAIN diagrams
    THEN conns
    ELSE [k \in ConnIds |->
            IF k \in Clients(diagrams[id].clients) /\ conns[k].st = "open"
              THEN [conns[k] EXCEPT !.recv = conns[k].recv + 1]
              ELSE conns[k]]

\* The callback given to watch(): a "change" event of watcher w. A closed
\* FSWatcher reports no events.
WatcherChange(w) ==
  /\ w \in DOMAIN watchers
  /\ \A k \in ConnIds : conns[k].recv < MaxRecv
  /\ conns' = NotifyClients(watchers[w])
  /\ UNCHANGED <<serverVars, registryVars, previewVars, httpVars, pageVars>>

\* notifyClients(diagramId) when client.send throws for connection bad:
\* forEach visits the set in insertion order and has no try/catch, so the
\* exception ends the loop and the members after bad are not visited.
NotifyClientsThrow(id, bad) ==
  [k \in ConnIds |->
     IF /\ k \in Clients(diagrams[id].clients)
        /\ conns[k].st = "open"
        /\ conns[k].ord < conns[bad].ord
       THEN [conns[k] EXCEPT !.recv = conns[k].recv + 1]
       ELSE conns[k]]

\* A "change" event of watcher w during which the send to bad throws. Nothing
\* catches the exception, which leaves the watch callback and ends the process.
WatcherChangeThrow(w, bad) ==
  /\ w \in DOMAIN watchers
  /\ watchers[w] \in DOMAIN diagrams
  /\ bad \in Clients(diagrams[watchers[w]].clients)
  /\ conns[bad].st = "open"
  /\ \A k \in ConnIds : conns[k].recv < MaxRecv
  /\ conns' = NotifyClientsThrow(watchers[w], bad)
  /\ crashed' = TRUE
  /\ UNCHANGED <<liveServer, liveServerPort, wss, servers, extBound, callers, closer>>
  /\ UNCHANGED <<registryVars, previewVars, httpVars, pageVars>>

\* ------------------------------------------------------------ connections
Accepting(s) == s \in 1..Len(servers) /\ servers[s].bound /\ servers[s].wssOpen

\* A client opens a WebSocket to ws://localhost:port/id of a listening server.
\* Connections are numbered in the order they are opened.
ClientConnect(k, id, s) ==
  /\ conns[k].st = "none"
  /\ \A j \in 1..(k - 1) : conns[j].st # "none"
  /\ Accepting(s)
  /\ conns' = [conns EXCEPT ![k] = [NoConn EXCEPT !.st = "connecting", !.url = id, !.srv = s]]
  /\ UNCHANGED <<serverVars, registryVars, previewVars, httpVars, pageVars>>

\* state.clients.add(ws): the new member comes last in the iteration order.
RECURSIVE MaxOrd(_)
MaxOrd(ks) ==
  IF ks = {} THEN 0
  ELSE LET k == CHOOSE x \in ks : TRUE
           m == MaxOrd(ks \ {k})
       IN IF conns[k].ord > m THEN conns[k].ord ELSE m

\* wss.on("connection") that leaves the connection of an unknown diagram open.
OnConnectionNoClose(k) ==
  LET diagramId == conns[k].url
  IN IF diagramId # "" /\ diagramId \in DOMAIN diagrams
       THEN [conns[k] EXCEPT !.st = "open", !.set = diagrams[diagramId].clients,
                             !.watcher = diagrams[diagramId].watcher,
                             !.ord = MaxOrd(Clients(diagrams[diagramId].clients)) + 1]
       ELSE [conns[k] EXCEPT !.st = "open"]

\* wss.on("connection") that attaches without looking the diagram up.
OnConnectionAny(k) ==
  LET diagramId == conns[k].url
  IN IF diagramId # "" /\ diagramId \in DOMAIN diagrams
       THEN [conns[k] EXCEPT !.st = "open", !.set = diagrams[diagramId].clients,
                             !.watcher = diagrams[diagramId].watcher,
                             !.ord = MaxOrd(Clients(diagrams[diagramId].clients)) + 1]
       ELSE [conns[k] EXCEPT !.st = "open", !.set = nWatchers + 1]

\* wss.on("connection", (ws, req) => ...): the connection after the handler.
OnConnection(k) ==
  LET diagramId == conns[k].url
  IN IF diagramId # "" /\ diagramId \in DOMAIN diagrams
       THEN [conns[k] EXCEPT !.st = "open", !.set = diagrams[diagramId].clients,
                             !.watcher = diagrams[diagramId].watcher,
                             !.ord = MaxOrd(Clients(diagrams[diagramId].clients)) + 1]
       ELSE [conns[k] EXCEPT !.st = "closing"]

\* The upgrade completes and the "connection" event runs the handler. An
\* upgrade request that reaches a server whose wss is closed gets no handler.
WsConnection(k) ==
  /\ conns[k].st = "connecting"
  /\ Accepting(conns[k].srv)
  /\ conns' = [conns EXCEPT ![k] = OnConnection(k)]
  /\ UNCHANGED <<serverVars, registryVars, previewVars, httpVars, pageVars>>

\* The peer's close frame arrives: readyState is CLOSING until the socket ends.
PeerClose(k) ==
  /\ conns[k].st = "open"
  /\ conns' = [conns EXCEPT ![k].st = "closing"]
  /\ UNCHANGED <<serverVars, registryVars, previewVars, httpVars, pageVars>>

\* A "close" handler that leaves the connection in the set.
OnCloseKeep(k) == [conns[k] EXCEPT !.st = "closed", !.ord = 0]

\* ws.on("close", () => state.clients.delete(ws)): readyState is CLOSED and
\* the handler, registered for attached connections only, has run.
OnClose(k) == [conns[k] EXCEPT !.st = "closed", !.set = 0, !.ord = 0]

\* The socket of connection k ends: the "close" event.
SocketClose(k) ==
  /\ conns[k].st \in {"open", "closing"}
  /\ conns' = [conns EXCEPT ![k] = OnClose(k)]
  /\ UNCHANGED <<serverVars, registryVars, previewVars, httpVars, pageVars>>

\* -------------------------------------------------------- closeLiveServer
LiveSockets(s) == {k \in ConnIds : conns[k].srv = s /\ conns[k].st \in {"open", "closing"}}

\* closeLiveServer that closes the servers and keeps the registry.
CloseBeginKeep ==
  /\ closer = "idle"
  /\ IF wss # 0
       THEN /\ servers' = [servers EXCEPT ![wss].wssOpen = FALSE]
            /\ closer' = "wss"
       ELSE IF liveServer # 0
         THEN /\ servers' = [servers EXCEPT ![liveServer].bound = FALSE]
              /\ closer' = "http"
         ELSE UNCHANGED <<servers, closer>>
  /\ UNCHANGED <<liveServer, liveServerPort, wss, extBound, crashed, callers>>
  /\ UNCHANGED <<registryVars, connVars, previewVars, httpVars, pageVars>>

\* closeLiveServer that closes the http server without testing the handle.
CloseBeginUnguarded ==
  /\ closer = "idle"
  /\ watchers' = CloseWatchers({diagrams[id].watcher : id \in DOMAIN diagrams})
  /\ diagrams' = EmptyMap
  /\ IF wss # 0
       THEN /\ servers' = [servers EXCEPT ![wss].wssOpen = FALSE]
            /\ closer' = "wss"
       ELSE /\ closer' = "http"
            /\ servers' = IF liveServer # 0
                            THEN [servers EXCEPT ![liveServer].bound = FALSE]
                            ELSE servers
  /\ UNCHANGED <<liveServer, liveServerPort, wss, extBound, crashed, callers, nWatchers>>
  /\ UNCHANGED <<connVars, previewVars, httpVars, pageVars>>

\* The call up to its first suspension: every registered watcher is closed,
\* diagrams.clear(), then wss.close(cb), or liveServer.close(cb) if there is
\* no wss, or return.
CloseBegin ==
  /\ closer = "idle"
  /\ watchers' = CloseWatchers({diagrams[id].watcher : id \in DOMAIN diagrams})
  /\ diagrams' = EmptyMap
  /\ IF wss # 0
       THEN /\ servers' = [servers EXCEPT ![wss].wssOpen = FALSE]
            /\ closer' = "wss"
       ELSE IF liveServer # 0
         THEN /\ servers' = [servers EXCEPT ![liveServer].bound = FALSE]
              /\ closer' = "http"
         ELSE UNCHANGED <<servers, closer>>
  /\ UNCHANGED <<liveServer, liveServerPort, wss, extBound, crashed, callers, nWatchers>>
  /\ UNCHANGED <<connVars, previewVars, httpVars, pageVars>>

\* The callback of wss.close(): wss = null; then liveServer.close(cb) if
\* there is a server. A WebSocketServer emits "close" once it has no client.
CloseWssDone ==
  /\ closer = "wss"
  /\ wss = 0 \/ LiveSockets(wss) = {}
  /\ wss' = 0
  /\ IF liveServer # 0
       THEN /\ servers' = [servers EXCEPT ![liveServer].bound = FALSE]
            /\ closer' = "http"
       ELSE /\ closer' = "idle"
            /\ UNCHANGED servers
  /\ UNCHANGED <<liveServer, liveServerPort, extBound, crashed, callers>>
  /\ UNCHANGED <<registryVars, connVars, previewVars, httpVars, pageVars>>

\* The callback of liveServer.close(), which runs once every socket of the
\* server has ended: liveServer = null; liveServerPort = null.
CloseHttpDone ==
  /\ closer = "http"
  /\ liveServer = 0 \/ LiveSockets(liveServer) = {}
  /\ liveServer' = 0
  /\ liveServerPort' = 0
  /\ closer' = "idle"
  /\ UNCHANGED <<wss, servers, extBound, crashed, callers>>
  /\ UNCHANGED <<registryVars, connVars, previewVars, httpVars, pageVars>>

CloseLiveServer == CloseBegin \/ CloseWssDone \/ CloseHttpDone

\* ------------------------------------------------------------------- Spec
\* One call of ensureLiveServer, closeLiveServer, the registry and the clients.
Next ==
  \/ Ensure(1)
  \/ CloseLiveServer
  \/ \E id \in IDs, p \in Paths, ok \in BOOLEAN : AddLiveDiagram(id, p, ok)
  \/ \E w \in 1..MaxWatchers : WatcherChange(w)
  \/ \E k \in ViewerIds, id \in IDs, s \in 1..Len(servers) : ClientConnect(k, id, s)
  \/ \E k \in ConnIds : WsConnection(k) \/ PeerClose(k) \/ SocketClose(k)

Spec == Init /\ [][Next]_vars

\* Calls of ensureLiveServer while closeLiveServer runs.
NextRestart ==
  \/ \E c \in Callers : Ensure(c)
  \/ CloseLiveServer

SpecRestart == Init /\ [][NextRestart]_vars

\* The event loop runs the callback of wss.close() and of liveServer.close()
\* once the server has emitted "close".
SpecShutdownFair == Spec /\ WF_vars(CloseWssDone) /\ WF_vars(CloseHttpDone)

\* Several viewers of the registered diagrams, with sends that may throw.
\* Nothing runs in a process that has ended.
NextFanout ==
  \/ ~crashed /\ Ensure(1)
  \/ ~crashed /\ \E id \in IDs, p \in Paths : AddLiveDiagram(id, p, TRUE)
  \/ ~crashed /\ \E w \in 1..MaxWatchers : WatcherChange(w)
  \/ ~crashed /\ \E w \in 1..MaxWatchers, bad \in ConnIds : WatcherChangeThrow(w, bad)
  \/ ~crashed /\ \E k \in ConnIds, id \in IDs, s \in 1..Len(servers) : ClientConnect(k, id, s)
  \/ ~crashed /\ \E k \in ConnIds : WsConnection(k)
  \/ ~crashed /\ \E k \in ConnIds : PeerClose(k)
  \/ ~crashed /\ \E k \in ConnIds : SocketClose(k)

SpecFanout == Init /\ [][NextFanout]_vars

\* ------------------------------------------------- handleMermaidPreview
\* getDiagramFilePath(previewId, "svg"): one working file for each preview id.
LiveFilePath(id) == IF id = "arch" THEN "p1" ELSE "p2"

FreeTab(t) == tabs[t].st = "none" /\ \A u \in 1..(t - 1) : tabs[u].st # "none"
FreeConn(k) == conns[k].st = "none" /\ \A j \in 1..(k - 1) : conns[j].st # "none"

\* mermaid_preview with format svg, once the diagram is rendered: the call
\* of setupLivePreview up to its first suspension, `await ensureLiveServer()`.
PreviewCall(r, id) ==
  /\ renders[r].pc = "idle"
  /\ callers[r].pc = "idle"
  /\ renders' = [renders EXCEPT ![r] = [pc |-> "ensure", id |-> id]]
  /\ callers' = [callers EXCEPT ![r] = CallEnsure(r)]
  /\ UNCHANGED <<liveServer, liveServerPort, wss, servers, extBound, crashed, closer, tabs>>
  /\ UNCHANGED <<registryVars, connVars, httpVars, pageVars>>

\* if (!hasConnections) execFileAsync(getOpenCommand(), [serverUrl]): a new
\* tab that loads the preview page, or no launch.
Launch(t, id, hasConnections) ==
  IF hasConnections
    THEN UNCHANGED tabs
    ELSE tabs' = [tabs EXCEPT ![t] = [st |-> "loading", id |-> id, conn |-> 0]]

\* The rest of setupLivePreview, which runs in one turn once ensureLiveServer
\* has answered: hasActiveConnections, addLiveDiagram, then the browser
\* launch. A rejected ensureLiveServer or a throwing watch() ends the tool
\* call with an error result before the launch.
PreviewSetup(r, t, watchOk) ==
  /\ renders[r].pc = "ensure"
  /\ callers[r].pc \in {"done", "failed"}
  /\ LET id == renders[r].id
         hasConnections == HasActiveConnections(id)
     IN IF callers[r].pc = "done"
          THEN /\ Register(id, LiveFilePath(id), watchOk)
               /\ IF watchOk /\ ~hasConnections
                    THEN FreeTab(t) /\ Launch(t, id, hasConnections)
                    ELSE t = 1 /\ UNCHANGED tabs
          ELSE t = 1 /\ UNCHANGED <<registryVars, tabs>>
  /\ renders' = [renders EXCEPT ![r] = NoRender]
  /\ callers' = [callers EXCEPT ![r] = NoCaller]
  /\ UNCHANGED <<liveServer, liveServerPort, wss, servers, extBound, crashed, closer>>
  /\ UNCHANGED <<connVars, httpVars, pageVars>>

\* ------------------------------------------------------- the preview page
\* connectWebSocket(): wsState.connection = new WebSocket(ws://localhost:port/id)
Connect(t, k, s) ==
  /\ FreeConn(k)
  /\ Accepting(s)
  /\ conns' = [conns EXCEPT ![k] = [NoConn EXCEPT !.st = "connecting", !.url = tabs[t].id, !.srv = s]]
  /\ tabs' = [tabs EXCEPT ![t].st = "page", ![t].conn = k]
  /\ UNCHANGED <<serverVars, registryVars, renders, httpVars, pageVars>>

\* The tab gets the page of a registered diagram and its script runs
\* initializeWebSocket.
TabLoad(t, k, s) ==
  /\ tabs[t].st = "loading"
  /\ tabs[t].id \in DOMAIN diagrams
  /\ Connect(t, k, s)

\* handleWebSocketClose: the connection of the page has closed and the
\* reconnect timer calls connectWebSocket.
TabReconnect(t, k, s) ==
  /\ tabs[t].st = "page"
  /\ conns[tabs[t].conn].st = "closed"
  /\ Connect(t, k, s)

\* handleWebSocketMessage: "reload" makes the page reload itself, which
\* closes its connection.
TabReload(t) ==
  /\ tabs[t].st = "page"
  /\ conns[tabs[t].conn].st = "open"
  /\ conns[tabs[t].conn].recv > 0
  /\ conns' = [conns EXCEPT ![tabs[t].conn].st = "closing"]
  /\ tabs' = [tabs EXCEPT ![t].st = "loading", ![t].conn = 0]
  /\ UNCHANGED <<serverVars, registryVars, renders, httpVars, pageVars>>

\* The mermaid_preview tool called concurrently, the pages it opens, and
\* change events of the rendered files.
NextPreview ==
  \/ \E r \in RenderIds, id \in IDs : PreviewCall(r, id)
  \/ \E r \in RenderIds : ProbeListening(r) \/ ProbeError(r) \/ CreateServer(r) \/ ListenCallback(r)
  \/ \E r \in RenderIds, t \in TabIds, ok \in BOOLEAN : PreviewSetup(r, t, ok)
  \/ \E t \in TabIds, k \in ViewerIds, s \in 1..Len(servers) : TabLoad(t, k, s) \/ TabReconnect(t, k, s)
  \/ \E t \in TabIds : TabReload(t)
  \/ \E k \in ConnIds : WsConnection(k) \/ SocketClose(k)
  \/ \E w \in 1..MaxWatchers : WatcherChange(w)

SpecPreview == Init /\ [][NextPreview]_vars

\* ============================================================ preview page
maxReconnectAttempts == 30

\* The diagram whose live page the browser shows.
PageDiagram == "arch"

\* The servers that accept a connection to ws://localhost:<port>/...
ServerAt(port) == {s \in 1..Len(servers) : servers[s].port = port /\ Accepting(s)}

\* A WebSocket object the page can create: none of the page's live objects
\* and no connection the server still holds uses the number. The insertion
\* order numbers of the server's sets stay below MaxConns.
FreeSock(k) ==
  /\ wsState.sock[k] = "none" /\ conns[k].st \in {"none", "closed"}
  /\ \A j \in 1..(k - 1) : ~(wsState.sock[j] = "none" /\ conns[j].st \in {"none", "closed"})
  /\ \A j \in ConnIds : conns[j].ord < MaxConns

\* new WebSocket(`ws://localhost:${port}/${diagramId}`) as the server sees it:
\* an upgrade request in flight, or nothing when no server accepts on the port.
NewWebSocket(k, port) ==
  IF ServerAt(port) # {}
    THEN [conns EXCEPT ![k] = [NoConn EXCEPT !.st = "connecting", !.url = PageDiagram,
                                             !.srv = CHOOSE s \in ServerAt(port) : TRUE]]
    ELSE [conns EXCEPT ![k] = NoConn]

\* connectWebSocket(): wsState.connection = new WebSocket(...), with the four
\* handlers; the connection it replaces is neither closed nor looked at.
ConnectWebSocket(ws, k) == [ws EXCEPT !.connection = k, !.sock[k] = "connecting"]

\* handleWebSocketOpen
HandleWebSocketOpen(ws) ==
  [ws EXCEPT !.reconnectAttempts = 0, !.attempts = 0, !.reconnectInterval = FALSE]

\* handleWebSocketError: wsState.connection.close(), which fails a connection
\* being established and starts the closing handshake of an open one.
HandleWebSocketError(ws) ==
  IF ws.connection # 0
    THEN [ws EXCEPT !.sock[ws.connection] =
                      IF @ = "connecting" THEN "aborting" ELSE IF @ = "open" THEN "closing" ELSE @]
    ELSE ws

\* handleWebSocketClose: start the 2 s timer unless it runs or the limit is
\* reached.
HandleWebSocketClose(ws) ==
  IF ws.reconnectAttempts >= maxReconnectAttempts
    THEN ws
    ELSE [ws EXCEPT !.reconnectInterval = TRUE]

\* The browser gets the live page of PageDiagram from the running server and
\* the script runs initialize(): connectWebSocket().
PageLoad(k) ==
  /\ ~wsState.loaded
  /\ liveServer # 0 /\ servers[liveServer].bound /\ liveServerPort # 0
  /\ PageDiagram \in DOMAIN diagrams
  /\ FreeSock(k)
  /\ wsState' = ConnectWebSocket([NoPage EXCEPT !.loaded = TRUE, !.port = liveServerPort], k)
  /\ conns' = NewWebSocket(k, liveServerPort)
  /\ UNCHANGED <<serverVars, registryVars, previewVars, httpVars>>

\* The timer callback that calls connectWebSocket whatever the limit.
ReconnectTickNoLimit(k) ==
  /\ wsState.reconnectInterval
  /\ wsState.attempts <= maxReconnectAttempts
  /\ FreeSock(k)
  /\ wsState' = ConnectWebSocket([wsState EXCEPT !.reconnectAttempts = @ + 1,
                                                 !.attempts = @ + 1], k)
  /\ conns' = NewWebSocket(k, wsState.port)
  /\ UNCHANGED <<serverVars, registryVars, previewVars, httpVars>>

\* The setInterval callback of handleWebSocketClose, every 2 s while the timer
\* runs: at the limit it clears the timer, else it counts the attempt and
\* calls connectWebSocket.
ReconnectTick(k) ==
  /\ wsState.reconnectInterval
  /\ IF wsState.reconnectAttempts >= maxReconnectAttempts
       THEN /\ k = 1
            /\ wsState' = [wsState EXCEPT !.reconnectInterval = FALSE]
            /\ UNCHANGED conns
       ELSE /\ FreeSock(k)
            /\ wsState' = ConnectWebSocket([wsState EXCEPT !.reconnectAttempts = @ + 1,
                                                           !.attempts = @ + 1], k)
            /\ conns' = NewWebSocket(k, wsState.port)
  /\ UNCHANGED <<serverVars, registryVars, previewVars, httpVars>>

\* onopen of WebSocket k: the server has answered the upgrade request.
SockOpen(k) ==
  /\ wsState.sock[k] = "connecting"
  /\ conns[k].st \in {"open", "closing", "closed"}
  /\ wsState' = HandleWebSocketOpen([wsState EXCEPT !.sock[k] = "open"])
  /\ UNCHANGED <<serverVars, registryVars, connVars, previewVars, httpVars>>

\* WebSocket k fails before it opens, refused by the host or closed by the
\* script: onerror, then onclose, in one task.
SockFail(k) ==
  /\ \/ wsState.sock[k] = "aborting"
     \/ wsState.sock[k] = "connecting" /\ conns[k].st = "none"
  /\ wsState' = HandleWebSocketClose([HandleWebSocketError(wsState) EXCEPT !.sock[k] = "none"])
  /\ UNCHANGED <<serverVars, registryVars, connVars, previewVars, httpVars>>

\* onclose of WebSocket k, which was open: the server's end has closed.
SockClosed(k) ==
  /\ wsState.sock[k] \in {"open", "closing"}
  /\ conns[k].st = "closed"
  /\ wsState' = HandleWebSocketClose([wsState EXCEPT !.sock[k] = "none"])
  /\ UNCHANGED <<serverVars, registryVars, connVars, previewVars, httpVars>>

\* One live page of a diagram rendered once or twice, its connections
\* dropped by the network or refused after closeLiveServer.
InitPage == Init /\ extBound = {}

NextPage ==
  \/ EnsureCall(1) \/ ProbeListening(1) \/ CreateServer(1) \/ ListenCallback(1)
  \/ \E p \in {LiveFilePath(PageDiagram)} : AddLiveDiagram(PageDiagram, p, TRUE)
  \/ CloseLiveServer
  \/ \E k \in ConnIds : PageLoad(k) \/ ReconnectTick(k)
  \/ \E k \in ConnIds : SockOpen(k) \/ SockFail(k) \/ SockClosed(k)
  \/ \E k \in ConnIds : WsConnection(k) \/ SocketClose(k)

SpecPage == InitPage /\ [][NextPage]_vars

\* ================================================================ requests
\* ----------------------------------------------------------------- strings
\* String.prototype.startsWith, substring(start) and includes.
StartsWith(s, prefix) == Len(s) >= Len(prefix) /\ SubSeq(s, 1, Len(prefix)) = prefix
Substring(s, start) == SubSeq(s, start + 1, Len(s))
Includes(s, part) == \E i \in 1..(Len(s) - Len(part) + 1) : SubSeq(s, i, i + Len(part) - 1) = part

\* The character U+0000, which a TLA+ string cannot hold, written as a tab.
NUL == "\t"

\* The characters PREVIEW_ID_REGEX = /^[a-zA-Z0-9_-]+$/ admits.
IdAlphabet == "abcdefghijklmnopqrstuvwxyzABCDEFGHIJKLMNOPQRSTUVWXYZ0123456789_-"
IdChars == {SubSeq(IdAlphabet, i, i) : i \in 1..Len(IdAlphabet)}
PREVIEW_ID_REGEX(s) ==
  /\ Len(s) > 0
  /\ \A i \in 1..Len(s) : SubSeq(s, i, i) \in IdChars

\* validatePreviewId(previewId): TRUE when it returns, FALSE when it throws.
ValidatePreviewId(previewId) == previewId # "" /\ PREVIEW_ID_REGEX(previewId)

\* The character a percent escape stands for; "" for a malformed escape.
\* Only the escapes of the requests below are listed.
Unescape(e) ==
  CASE e \in {"%2F", "%2f"} -> "/"
    [] e \in {"%2E", "%2e"} -> "."
    [] e = "%00" -> NUL
    [] OTHER -> ""

\* decodeURIComponent(s): ok is FALSE when it throws URIError.
RECURSIVE DecodeURIComponent(_)
DecodeURIComponent(s) ==
  IF s = "" THEN [ok |-> TRUE, s |-> ""]
  ELSE IF SubSeq(s, 1, 1) = "%"
    THEN IF Len(s) >= 3 /\ Unescape(SubSeq(s, 1, 3)) # ""
           THEN LET r == DecodeURIComponent(Substring(s, 3))
                IN [ok |-> r.ok, s |-> Unescape(SubSeq(s, 1, 3)) \o r.s]
           ELSE [ok |-> FALSE, s |-> ""]
    ELSE LET r == DecodeURIComponent(Substring(s, 1))
         IN [ok |-> r.ok, s |-> SubSeq(s, 1, 1) \o r.s]

\* ------------------------------------------------------------------- paths
\* s.split("/")
RECURSIVE Split(_)
Split(s) ==
  IF ~Includes(s, "/") THEN <<s>>
  ELSE LET i == CHOOSE n \in 1..Len(s) :
                  SubSeq(s, n, n) = "/" /\ ~Includes(SubSeq(s, 1, n - 1), "/")
       IN <<SubSeq(s, 1, i - 1)>> \o Split(Substring(s, i))

\* path.normalize on segments: "." and empty segments go, ".." takes the
\* segment before it away, and stays when there is none.
RECURSIVE Resolve(_, _)
Resolve(out, segs) ==
  IF segs = <<>> THEN out
  ELSE LET h == Head(segs)
       IN IF h = "" \/ h = "."
            THEN Resolve(out, Tail(segs))
            ELSE IF h = ".." /\ out # <<>> /\ out[Len(out)] # ".."
              THEN Resolve(SubSeq(out, 1, Len(out) - 1), Tail(segs))
              ELSE Resolve(Append(out, h), Tail(segs))

RECURSIVE JoinSegs(_)
JoinSegs(segs) ==
  IF segs = <<>> THEN ""
  ELSE IF Len(segs) = 1 THEN segs[1]
  ELSE segs[1] \o "/" \o JoinSegs(Tail(segs))

\* join(getLiveDir(), dir, name) as a path relative to the live directory:
\* a path that starts with ".." lies outside it.
Join(dir, name) == JoinSegs(Resolve(<<>>, Split(dir) \o <<name>>))

DIAGRAM_SVG == "diagram.svg"
DIAGRAM_SOURCE == "diagram.mmd"
DIAGRAM_OPTIONS == "options.json"

\* The files of the diagram directory dir.
DiagramDir(dir) == {Join(dir, DIAGRAM_SVG), Join(dir, DIAGRAM_SOURCE), Join(dir, DIAGRAM_OPTIONS)}

\* The live directory at process start: the diagrams arch and view and a
\* diagram.svg outside the live directory; the diagram api and a directory
\* a..b made by hand; or a diagram arch that has lost its options file.
Disks ==
  { DiagramDir("arch") \cup DiagramDir("view") \cup {"../etc/diagram.svg"},
    DiagramDir("api") \cup DiagramDir("a..b"),
    {Join("arch", DIAGRAM_SVG), Join("arch", DIAGRAM_SOURCE)} }

\* --------------------------------------------------------------- responses
CSP_HEADER ==
  "default-src 'none'; script-src 'self'; style-src 'self' 'unsafe-inline'; img-src 'self' data:; connect-src 'self' ws://localhost:*"

\* What a handler did with a request: the handler the request was dispatched
\* to, the diagram ID it took from the URL, the response it wrote (status 0:
\* it threw before it wrote one), the data-live-enabled attribute of the page
\* it rendered, the paths it handed to the filesystem, the IDs it looked up
\* in diagrams, and the files it deleted.
NoResponse ==
  [handler |-> "", id |-> "", status |-> 0, ctype |-> "", csp |-> "", body |-> "",
   live |-> FALSE, read |-> {}, looked |-> {}, removed |-> {}]

NoRequest == [req |-> [method |-> "", url |-> ""], res |-> NoResponse, page |-> "none"]

\* The reads of loadDiagramOptions(id) and loadDiagramSource(id): their
\* paths come from getPreviewDir, which validates the ID first.
OptionsRead(id) == IF ValidatePreviewId(id) THEN {Join(id, DIAGRAM_OPTIONS)} ELSE {}
SourceRead(id) == IF ValidatePreviewId(id) THEN {Join(id, DIAGRAM_SOURCE)} ELSE {}

\* handleViewRequest that sends the page without the policy header.
HandleViewRequestNoCsp(url, tmplOk) ==
  LET diagramId == Substring(url, 6)
      filePath == Join(diagramId, DIAGRAM_SVG)
      r == [NoResponse EXCEPT !.handler = "handleViewRequest", !.id = diagramId,
                              !.read = {filePath} \cup OptionsRead(diagramId)]
  IN IF filePath \in disk /\ tmplOk
       THEN [r EXCEPT !.status = 200, !.ctype = "text/html", !.body = "page"]
       ELSE [r EXCEPT !.status = 404, !.ctype = "text/plain", !.body = "Diagram not found"]

\* handleViewRequest that renders the page with live reload enabled.
HandleViewRequestLive(url, tmplOk) ==
  LET diagramId == Substring(url, 6)
      filePath == Join(diagramId, DIAGRAM_SVG)
      r == [NoResponse EXCEPT !.handler = "handleViewRequest", !.id = diagramId,
                              !.read = {filePath} \cup OptionsRead(diagramId)]
  IN IF filePath \in disk /\ tmplOk
       THEN [r EXCEPT !.status = 200, !.ctype = "text/html", !.csp = CSP_HEADER,
                      !.body = "page", !.live = TRUE]
       ELSE [r EXCEPT !.status = 404, !.ctype = "text/plain", !.body = "Diagram not found"]

\* handleViewRequest(url, res, port): the ID is what follows "/view/"; the
\* file is read while loadDiagramOptions runs, whose failure falls back to
\* the default options. tmplOk is whether the page template can be read.
HandleViewRequest(url, tmplOk) ==
  LET diagramId == Substring(url, 6)
      filePath == Join(diagramId, DIAGRAM_SVG)
      r == [NoResponse EXCEPT !.handler = "handleViewRequest", !.id = diagramId,
                              !.read = {filePath} \cup OptionsRead(diagramId)]
  IN IF filePath \in disk /\ tmplOk
       THEN [r EXCEPT !.status = 200, !.ctype = "text/html", !.csp = CSP_HEADER,
                      !.body = "page", !.live = FALSE]
       ELSE [r EXCEPT !.status = 404, !.ctype = "text/plain", !.body = "Diagram not found"]

\* handleLivePreviewRequest that reads the state without the registry test.
HandleLivePreviewRequestNoCheck(url, tmplOk) ==
  LET diagramId == Substring(url, 1)
      r == [NoResponse EXCEPT !.handler = "handleLivePreviewRequest", !.id = diagramId,
                              !.looked = {diagramId}]
  IN IF diagramId \notin DOMAIN diagrams
       THEN [r EXCEPT !.status = 500, !.ctype = "text/plain", !.body = "Error reading diagram"]
       ELSE LET state == diagrams[diagramId]
                rd == [r EXCEPT !.read = {state.filePath} \cup OptionsRead(diagramId)]
            IN IF /\ state.filePath \in disk
                  /\ OptionsRead(diagramId) # {} /\ OptionsRead(diagramId) \subseteq disk
                  /\ tmplOk
                 THEN [rd EXCEPT !.status = 200, !.ctype = "text/html", !.csp = CSP_HEADER,
                                 !.body = "page", !.live = TRUE]
                 ELSE [rd EXCEPT !.status = 500, !.ctype = "text/plain",
                                 !.body = "Error reading diagram"]

\* handleLivePreviewRequest(url, res, port): the ID is the URL without its
\* first character; an ID that is not registered is answered 404, a failing
\* read of the file, the options or the template 500.
HandleLivePreviewRequest(url, tmplOk) ==
  LET diagramId == Substring(url, 1)
      r == [NoResponse EXCEPT !.handler = "handleLivePreviewRequest", !.id = diagramId,
                              !.looked = IF diagramId = "" THEN {} ELSE {diagramId}]
  IN IF diagramId = "" \/ diagramId \notin DOMAIN diagrams
       THEN [r EXCEPT !.status = 404, !.ctype = "text/plain", !.body = "Diagram not found"]
       ELSE LET state == diagrams[diagramId]
                rd == [r EXCEPT !.read = {state.filePath} \cup OptionsRead(diagramId)]
            IN IF /\ state.filePath \in disk
                  /\ OptionsRead(diagramId) # {} /\ OptionsRead(diagramId) \subseteq disk
                  /\ tmplOk
                 THEN [rd EXCEPT !.status = 200, !.ctype = "text/html", !.csp = CSP_HEADER,
                                 !.body = "page", !.live = TRUE]
                 ELSE [rd EXCEPT !.status = 500, !.ctype = "text/plain",
                                 !.body = "Error reading diagram"]

\* handleMermaidLiveRequest(url, res): the ID is decoded and validated, then
\* the source is loaded; the options fall back to the default theme.
HandleMermaidLiveRequest(url) ==
  LET rawId == Substring(url, Len("/mermaid-live/"))
      decoded == DecodeURIComponent(rawId)
      r == [NoResponse EXCEPT !.handler = "handleMermaidLiveRequest", !.ctype = "application/json"]
  IN IF rawId = ""
       THEN [r EXCEPT !.status = 400, !.body = "Diagram ID is required"]
       ELSE IF ~decoded.ok \/ ~ValidatePreviewId(decoded.s)
         THEN [r EXCEPT !.id = IF decoded.ok THEN decoded.s ELSE rawId,
                        !.status = 400, !.body = "Invalid diagram ID"]
         ELSE LET rd == [r EXCEPT !.id = decoded.s,
                                  !.read = SourceRead(decoded.s) \cup OptionsRead(decoded.s)]
              IN IF SourceRead(decoded.s) \subseteq disk
                   THEN [rd EXCEPT !.status = 200, !.body = "url"]
                   ELSE [rd EXCEPT !.status = 404, !.body = "Diagram not found"]

\* A static asset of the preview page: readFile is not guarded, so a missing
\* asset makes the request handler throw.
LegacyAsset(name, ctype, assetOk) ==
  IF assetOk
    THEN [NoResponse EXCEPT !.handler = name, !.status = 200, !.ctype = ctype, !.body = "asset"]
    ELSE [NoResponse EXCEPT !.handler = name]

\* handleSharedCss, handleGalleryCss, handleGalleryJs: 404 for a missing asset.
RouteAsset(name, ctype, assetOk) ==
  IF assetOk
    THEN [NoResponse EXCEPT !.handler = name, !.status = 200, !.ctype = ctype, !.body = "asset"]
    ELSE [NoResponse EXCEPT !.handler = name, !.status = 404, !.ctype = "text/plain",
                            !.body = "Not found"]

\* handleGallery(context)
HandleGallery(tmplOk) ==
  IF tmplOk
    THEN [NoResponse EXCEPT !.handler = "handleGallery", !.status = 200, !.ctype = "text/html",
                            !.csp = CSP_HEADER, !.body = "gallery"]
    ELSE [NoResponse EXCEPT !.handler = "handleGallery", !.status = 500, !.ctype = "text/plain",
                            !.body = "Error loading gallery"]

\* deleteDiagram(previewId) of diagram-service: validates the ID, looks for a
\* rendered file of any format, then deletes the files of the diagram. It
\* has no access to the registry of live-server.
DeleteDiagram(previewId) ==
  LET stats == {Join(previewId, "diagram." \o format) : format \in {"svg", "png", "pdf"}}
  IN IF ~ValidatePreviewId(previewId)
       THEN [ok |-> FALSE, read |-> {}, removed |-> {}]
       ELSE IF stats \cap disk = {}
         THEN [ok |-> FALSE, read |-> stats, removed |-> {}]
         ELSE [ok |-> TRUE, read |-> stats,
               removed |-> {f \in disk : StartsWith(f, previewId \o "/")}]

\* handleApiDiagramDelete(context): the list for /api/diagrams itself, the
\* deletion for DELETE /api/diagrams/:id, 404 for anything else.
HandleApiDiagramDelete(method, url) ==
  LET r == [NoResponse EXCEPT !.handler = "handleApiDiagramDelete", !.ctype = "application/json"]
      rest == Substring(url, Len("/api/diagrams/"))
  IN IF url = "/api/diagrams"
       THEN [r EXCEPT !.status = 200, !.body = "diagrams"]
       ELSE IF StartsWith(url, "/api/diagrams/") /\ rest # "" /\ ~Includes(rest, "/")
         THEN IF method # "DELETE"
                THEN [r EXCEPT !.id = rest, !.status = 405, !.body = "Method not allowed"]
                ELSE LET d == DeleteDiagram(rest)
                     IN IF d.ok
                          THEN [r EXCEPT !.id = rest, !.status = 200, !.body = "success",
                                         !.read = d.read, !.removed = d.removed]
                          ELSE [r EXCEPT !.id = rest, !.status = 500, !.read = d.read,
                                         !.body = "Failed to delete diagram"]
         ELSE [r EXCEPT !.status = 404, !.body = "Not found"]

\* ----------------------------------------------------------------- routing
ROUTE_CONFIG ==
  << [path |-> "/", exact |-> TRUE, handler |-> "handleGallery"],
     [path |-> "/api/diagrams", exact |-> FALSE, handler |-> "handleApiDiagramDelete"],
     [path |-> "/shared.css", exact |-> TRUE, handler |-> "handleSharedCss"],
     [path |-> "/gallery.css", exact |-> TRUE, handler |-> "handleGalleryCss"],
     [path |-> "/gallery.js", exact |-> TRUE, handler |-> "handleGalleryJs"] >>

\* matchRoute that compares every path as a prefix.
RECURSIVE MatchRouteFromPrefix(_, _)
MatchRouteFromPrefix(url, i) ==
  IF i > Len(ROUTE_CONFIG) THEN ""
  ELSE IF StartsWith(url, ROUTE_CONFIG[i].path)
    THEN ROUTE_CONFIG[i].handler
    ELSE MatchRouteFromPrefix(url, i + 1)

\* The loop of matchRoute from entry i on: `for (const route of ROUTE_CONFIG)`
\* returns the route at the first entry that matches.
RECURSIVE MatchRouteFrom(_, _)
MatchRouteFrom(url, i) ==
  IF i > Len(ROUTE_CONFIG) THEN ""
  ELSE IF (IF ROUTE_CONFIG[i].exact THEN url = ROUTE_CONFIG[i].path
           ELSE StartsWith(url, ROUTE_CONFIG[i].path))
    THEN ROUTE_CONFIG[i].handler
    ELSE MatchRouteFrom(url, i + 1)

\* matchRoute(url): the handler of the route it returns, "" for null.
MatchRoute(url) == MatchRouteFrom(url, 1)

\* The URLs matchRoute is applied to: a route path or a near miss, followed
\* by nothing, a slash, a segment, a query or one more character.
RouteUrls ==
  {stem \o tail :
     stem \in {"/", "/api/diagrams", "/api/diagram", "/api", "/shared.css", "/gallery.css",
               "/gallery.js", "/gallery", "/style.css", "/view", "/arch", "/nonexistent"},
     tail \in {"", "/", "/arch", "?search=test", "s", "/shared.css", "api/diagrams",
               ".map", "/.."}}

\* const route = matchRoute(url) for a request with this URL.
MatchRouteCall(url) ==
  /\ http' = [NoRequest EXCEPT !.req = [method |-> "GET", url |-> url],
                               !.res.handler = MatchRoute(url)]
  /\ UNCHANGED <<serverVars, registryVars, connVars, previewVars, disk, pageVars>>

NextRoutes == \E url \in RouteUrls : MatchRouteCall(url)

SpecRoutes == Init /\ [][NextRoutes]_vars

\* The body of the try block of the request handler: the new routes first,
\* then the legacy routes in the order of the source, then the live preview.
Dispatch(method, url, tmplOk, assetOk) ==
  LET route == MatchRoute(url)
  IN CASE route = "handleGallery" -> HandleGallery(tmplOk)
       [] route = "handleApiDiagramDelete" -> HandleApiDiagramDelete(method, url)
       [] route = "handleSharedCss" -> RouteAsset(route, "text/css", assetOk)
       [] route = "handleGalleryCss" -> RouteAsset(route, "text/css", assetOk)
       [] route = "handleGalleryJs" -> RouteAsset(route, "application/javascript", assetOk)
       [] OTHER ->
            IF url = "/style.css" THEN LegacyAsset("style", "text/css", assetOk)
            ELSE IF url = "/script.js" THEN LegacyAsset("script", "application/javascript", assetOk)
            ELSE IF StartsWith(url, "/mermaid-live/") THEN HandleMermaidLiveRequest(url)
            ELSE IF url = "/favicon.svg" THEN LegacyAsset("favicon", "image/svg+xml", assetOk)
            ELSE IF url = "/favicon.ico"
              THEN [NoResponse EXCEPT !.handler = "favicon", !.status = 302]
            ELSE IF StartsWith(url, "/view/") THEN HandleViewRequest(url, tmplOk)
            ELSE HandleLivePreviewRequest(url, tmplOk)

\* The request handler without its try/catch.
RequestHandlerNoCatch(method, url, tmplOk, assetOk) ==
  Dispatch(method, url, tmplOk, assetOk)

\* createServer(async (req, res) => { try { ... } catch { 500 } }): what the
\* handler has done when it settles.
RequestHandler(method, url, tmplOk, assetOk) ==
  LET r == Dispatch(method, url, tmplOk, assetOk)
  IN IF r.status = 0
       THEN [r EXCEPT !.status = 500, !.ctype = "text/plain", !.body = "Server error"]
       ELSE r

\* ------------------------------------------------------------ serve mode
\* One iteration of the loop of registerExistingDiagrams: a directory of the
\* live directory that holds a diagram.svg is registered under its name.
\* startServeMode runs the loop before it starts the server.
RegisterExistingDiagrams(name) ==
  /\ Len(servers) = 0
  /\ callers[1].pc = "idle"
  /\ name \in {Split(f)[1] : f \in {g \in disk : Split(g)[1] # ".."}}
  /\ name \notin DOMAIN diagrams
  /\ Join(name, DIAGRAM_SVG) \in disk
  /\ AddLiveDiagram(name, Join(name, DIAGRAM_SVG), TRUE)

\* ---------------------------------------------------------- HTTP requests
Methods == {"GET", "DELETE"}

\* The request targets a client sends.
Urls ==
  { "/", "/arch", "/view", "/api", "/a..b", "/missing",
    "/view/arch", "/view/../etc", "/view/a..b",
    "/mermaid-live/arch", "/mermaid-live/", "/mermaid-live/..%2Fetc", "/mermaid-live/%00",
    "/api/diagrams", "/api/diagrams/arch", "/api/diagrams/a..b",
    "/style.css", "/favicon.ico", "/shared.css" }

\* The requests clients send: DELETE is sent to the API only.
Requests == {rq \in Methods \X Urls : rq[1] = "GET" \/ StartsWith(rq[2], "/api/")}

\* The directory names serve mode may find in the live directory.
DirNames == {"arch", "view", "api", "a..b"}


\* A request arrives at a listening server and its handler runs to the end.
\* An async handler that throws leaves an unhandled rejection, which ends
\* the process. The template and the assets lie in one directory of the
\* package, so the requests below find both or neither.
HttpRequest(method, url, tmplOk, assetOk) ==
  /\ ~crashed
  /\ \E s \in 1..Len(servers) : servers[s].bound
  /\ LET r == RequestHandler(method, url, tmplOk, assetOk)
         isPage == r.status = 200 /\ r.handler \in {"handleViewRequest", "handleLivePreviewRequest"}
     IN /\ http' = [req |-> [method |-> method, url |-> url], res |-> r,
                    page |-> IF isPage THEN "served" ELSE "none"]
        /\ disk' = disk \ r.removed
        /\ crashed' = (r.status = 0)
  /\ UNCHANGED <<liveServer, liveServerPort, wss, servers, extBound, callers, closer>>
  /\ UNCHANGED <<registryVars, connVars, previewVars, pageVars>>

\* The browser runs the script of the page it was served: initialize() calls
\* initializeWebSocket(), which returns when config.liveEnabled is false and
\* calls connectWebSocket() otherwise.
PageInit ==
  /\ http.page = "served"
  /\ IF http.res.live
       THEN /\ \E k \in ViewerIds, s \in 1..Len(servers) :
                 /\ FreeConn(k)
                 /\ Accepting(s)
                 /\ conns' = [conns EXCEPT ![k] = [NoConn EXCEPT !.st = "connecting",
                                                                   !.url = http.res.id, !.srv = s]]
            /\ http' = [http EXCEPT !.page = "live"]
       ELSE /\ http' = [http EXCEPT !.page = "static"]
            /\ UNCHANGED conns
  /\ UNCHANGED <<serverVars, registryVars, previewVars, disk, pageVars>>

\* The process in serve mode: the diagrams on disk are registered, the
\* server starts, clients send requests, and the pages they are served
\* open push-channel connections.
InitHttp ==
  /\ InitProgram
  /\ extBound = {SERVER_PORT_START}
  /\ disk \in Disks
  /\ http = NoRequest

NextHttp ==
  \/ \E name \in DirNames : RegisterExistingDiagrams(name)
  \/ Ensure(1)
  \/ \E rq \in Requests, ok \in BOOLEAN : HttpRequest(rq[1], rq[2], ok, ok)
  \/ PageInit
  \/ \E k \in ConnIds : WsConnection(k)

SpecHttp == InitHttp /\ [][NextHttp]_vars

\* ------------------------------------------------ mermaid_preview formats
DIAGRAM_FORMATS == {"svg", "png", "pdf"}

\* handleMermaidPreview that sets the live preview up for every format.
HandleMermaidPreviewAll(r, id, format, renderOk) ==
  /\ renders[r].pc = "idle"
  /\ callers[r].pc = "idle"
  /\ disk' = disk \cup {Join(id, DIAGRAM_SOURCE), Join(id, DIAGRAM_OPTIONS)}
                  \cup IF renderOk THEN {Join(id, "diagram." \o format)} ELSE {}
  /\ IF renderOk
       THEN /\ renders' = [renders EXCEPT ![r] = [pc |-> "ensure", id |-> id]]
            /\ callers' = [callers EXCEPT ![r] = CallEnsure(r)]
       ELSE UNCHANGED <<renders, callers>>
  /\ UNCHANGED <<liveServer, liveServerPort, wss, servers, extBound, crashed, closer, tabs>>
  /\ UNCHANGED <<registryVars, connVars, http, pageVars>>

\* handleMermaidPreview(args) up to `await ensureLiveServer()` or to its
\* return: the source and the options are saved, the diagram is rendered to
\* diagram.<format> (renderOk: the renderer succeeds), and only for format
\* svg the call goes on into setupLivePreview.
HandleMermaidPreview(r, id, format, renderOk) ==
  /\ renders[r].pc = "idle"
  /\ callers[r].pc = "idle"
  /\ disk' = disk \cup {Join(id, DIAGRAM_SOURCE), Join(id, DIAGRAM_OPTIONS)}
                  \cup IF renderOk THEN {Join(id, "diagram." \o format)} ELSE {}
  /\ IF renderOk /\ format = "svg"
       THEN /\ renders' = [renders EXCEPT ![r] = [pc |-> "ensure", id |-> id]]
            /\ callers' = [callers EXCEPT ![r] = CallEnsure(r)]
       ELSE UNCHANGED <<renders, callers>>
  /\ UNCHANGED <<liveServer, liveServerPort, wss, servers, extBound, crashed, closer, tabs>>
  /\ UNCHANGED <<registryVars, connVars, http, pageVars>>

\* The mermaid_preview tool called with any format, one call at a time.
NextFormat ==
  \/ \E id \in IDs, format \in DIAGRAM_FORMATS, renderOk \in BOOLEAN :
       HandleMermaidPreview(1, id, format, renderOk)
  \/ ProbeListening(1) \/ ProbeError(1) \/ CreateServer(1) \/ ListenCallback(1)
  \/ \E t \in TabIds, watchOk \in BOOLEAN : PreviewSetup(1, t, watchOk)

SpecFormat == Init /\ [][NextFormat]_vars

\* ================================================================= claims

\* A registration that replaced the watcher of a session already registered.
ReRegistered(id) ==
  /\ id \in DOMAIN diagrams
  /\ id \in DOMAIN diagrams'
  /\ diagrams'[id].watcher # diagrams[id].watcher

\* A connection that the handler attached before the session's current
\* registration and that is still in the session's set.
AttachedBeforeUpdate(k, id) ==
  /\ id \in DOMAIN diagrams
  /\ conns[k].set = diagrams[id].clients
  /\ conns[k].watcher < diagrams[id].watcher

\* C1: concurrent calls of ensureLiveServer made before any server exists
\* create exactly one http server, no call fails to bind, and all calls
\* return the same port.
C1_OneServerOnePort ==
  /\ Len(servers) <= 1
  /\ \A c \in Callers : callers[c].pc # "bindError"
  /\ \A c, d \in Callers :
       callers[c].pc = "done" /\ callers[d].pc = "done" => callers[c].ret = callers[d].ret

\* C2: at every point each session ID has at most one watcher that is not
\* closed.
C2_AtMostOneWatcher ==
  \A id \in IDs : Cardinality({w \in DOMAIN watchers : watchers[w] = id}) <= 1

C2_Witness ==
  \E id \in DOMAIN diagrams :
    /\ diagrams[id].watcher # diagrams[id].clients
    /\ diagrams[id].watcher \in DOMAIN watchers

\* C3: a change event that notifies clients is reported by the watcher of
\* the session's current registration, never by the watcher of an earlier one.
C3_NoStaleNotification ==
  [][\A w \in DOMAIN watchers :
       WatcherChange(w) =>
         watchers[w] \in DOMAIN diagrams /\ diagrams[watchers[w]].watcher = w]_vars

C3_Witness ==
  \E k \in ConnIds, id \in DOMAIN diagrams :
    /\ diagrams[id].watcher # diagrams[id].clients
    /\ conns[k].set = diagrams[id].clients
    /\ conns[k].watcher = diagrams[id].watcher
    /\ conns[k].recv > 0

\* C4: a re-registration keeps the session's Set of connections and changes
\* no connection.
C4_ReRegisterKeepsClients ==
  [][\A id \in IDs :
       ReRegistered(id) => diagrams'[id].clients = diagrams[id].clients /\ conns' = conns]_vars

C4_Witness ==
  \E k \in ConnIds, id \in IDs : AttachedBeforeUpdate(k, id) /\ conns[k].st = "open"

\* C5 as stated: the re-registration of a session with an attached, open
\* viewer delivers exactly one reload to that viewer and keeps it attached.
C5_ReRegisterSendsOneReload ==
  [][\A id \in IDs, k \in ConnIds :
       (ReRegistered(id) /\ conns[k].set = diagrams[id].clients /\ conns[k].st = "open")
         => /\ conns'[k].set = diagrams'[id].clients
            /\ conns'[k].recv = conns[k].recv + 1]_vars

\* C5 amended: the re-registration of a session with an attached viewer keeps
\* the viewer attached and hasActiveConnections true and sends it nothing;
\* every change event then reported for the session sends each attached open
\* viewer exactly one reload.
C5_ReRegisterThenOneReloadPerChange ==
  [][/\ \A id \in IDs, k \in ConnIds :
          (ReRegistered(id) /\ conns[k].set = diagrams[id].clients)
            => /\ conns'[k].set = diagrams'[id].clients
               /\ conns'[k].recv = conns[k].recv
               /\ HasActiveConnections(id)
               /\ HasActiveConnections(id)'
     /\ \A w \in DOMAIN watchers, k \in ConnIds :
          (WatcherChange(w) /\ AttachedBeforeUpdate(k, watchers[w]) /\ conns[k].st = "open")
            => conns'[k].recv = conns[k].recv + 1]_vars

C5_Witness ==
  \E k \in ConnIds, id \in IDs :
    /\ AttachedBeforeUpdate(k, id)
    /\ conns[k].st = "open"
    /\ conns[k].recv = 1
    /\ HasActiveConnections(id)

\* C7: the handler closes a connection whose path names no registered
\* session, and such a connection is never put in a set.
C7_UnknownSessionRejected ==
  [][\A k \in ConnIds :
       /\ (conns[k].st = "connecting" /\ conns'[k].st # "connecting"
             /\ conns[k].url \notin DOMAIN diagrams)
            => conns'[k].st = "closing" /\ conns'[k].set = 0
       /\ (conns[k].st \in {"closing", "closed"} /\ conns[k].set = 0)
            => conns'[k].set = 0 /\ conns'[k].st \in {"closing", "closed"}]_vars

C7_Witness == \E k \in ConnIds : conns[k].st = "closing" /\ conns[k].set = 0

\* C8: no registered session's connection set holds a connection whose
\* transport has closed.
C8_NoClosedConnectionInSet ==
  \A id \in DOMAIN diagrams :
    \A k \in Clients(diagrams[id].clients) : conns[k].st # "closed"

C8_Witness ==
  \E k \in ConnIds :
    conns[k].st = "closed" /\ conns[k].watcher # 0 /\ conns[k].url \in DOMAIN diagrams

\* C9: when the only connection attached to a registered session closes,
\* hasActiveConnections of that session is false afterwards.
C9_AttachCloseRoundTrip ==
  [][\A id \in IDs, k \in ConnIds :
       (/\ id \in DOMAIN diagrams
        /\ Clients(diagrams[id].clients) = {k}
        /\ conns[k].st # "closed"
        /\ conns'[k].st = "closed")
         => ~HasActiveConnections(id)']_vars

C9_Witness ==
  \E k \in ConnIds :
    /\ conns[k].st = "closed"
    /\ conns[k].watcher # 0
    /\ conns[k].url \in DOMAIN diagrams
    /\ conns[k].watcher = diagrams[conns[k].url].watcher
    /\ ~HasActiveConnections(conns[k].url)

\* The position of a connection in the server-side state machine.
Phase(c) ==
  CASE c.st = "none" -> "None"
    [] c.st = "connecting" -> "Connecting"
    [] c.st \in {"open", "closing"} /\ c.set # 0 -> "Attached"
    [] c.st \in {"closing", "closed"} /\ c.set = 0 -> "Closed"
    [] OTHER -> "Invalid"

\* C10: a connection goes Connecting -> Attached -> Closed; it goes from
\* Connecting to Closed exactly when its session is unknown at connect time,
\* and it never leaves Closed.
C10_ConnectionStateMachine ==
  [][\A k \in ConnIds :
       LET a == Phase(conns[k])
           b == Phase(conns'[k])
           known == conns[k].url \in DOMAIN diagrams
       IN a # b =>
            \/ a = "None" /\ b = "Connecting"
            \/ a = "Connecting" /\ b = "Attached" /\ known
            \/ a = "Connecting" /\ b = "Closed" /\ ~known
            \/ a = "Attached" /\ b = "Closed"]_vars

C10_Witness ==
  \E k \in ConnIds : Phase(conns[k]) = "Closed" /\ conns[k].watcher # 0

\* A member of the set of the session that watcher w reports for.
Member(k, w) ==
  /\ watchers[w] \in DOMAIN diagrams
  /\ k \in Clients(diagrams[watchers[w]].clients)

C12_SendFailureIsolated ==
  [][\A w \in DOMAIN watchers, bad \in ConnIds :
       WatcherChangeThrow(w, bad) =>
         \A k \in ConnIds \ {bad} :
           (Member(k, w) /\ conns[k].st = "open") => conns'[k].recv = conns[k].recv + 1]_vars

\* A connection that the handler attached to the current set of session id and
\* whose transport has not closed.
Viewing(k, id) ==
  /\ conns[k].url = id
  /\ conns[k].st \in {"open", "closing"}
  /\ conns[k].set = diagrams[id].clients

\* C13: hasActiveConnections(id) is true exactly when id is registered and
\* some attached connection whose transport has not closed is in its set; it
\* is false for an id that is not registered and for one just registered.
C13_HasActiveIffRegisteredWithViewer ==
  [][\A id \in IDs :
       /\ HasActiveConnections(id) <=> (id \in DOMAIN diagrams /\ \E k \in ConnIds : Viewing(k, id))
       /\ HasActiveConnections(id)' <=> (id \in DOMAIN diagrams' /\ \E k \in ConnIds : Viewing(k, id)')
       /\ (id \notin DOMAIN diagrams /\ id \in DOMAIN diagrams') => ~HasActiveConnections(id)']_vars

C13_Witness ==
  \E id, other \in DOMAIN diagrams :
    /\ HasActiveConnections(id)
    /\ ~HasActiveConnections(other)

\* C14: the recorded port is non-null exactly when the http server handle is
\* non-null and that server is bound.
C14_PortIffServerBound ==
  (liveServerPort # 0) <=> (liveServer # 0 /\ servers[liveServer].bound)

\* C15: a call of ensureLiveServer that finds a server running returns the
\* recorded port in the same turn, probes nothing, creates nothing and changes
\* neither the handles nor the port, so the next call returns the same port.
C15_RunningServerReused ==
  [][\A c \in Callers :
       (/\ callers[c].pc = "idle"
        /\ callers'[c].pc # "idle"
        /\ liveServer # 0
        /\ liveServerPort # 0)
         => /\ callers'[c] = [pc |-> "done", port |-> 0, ret |-> liveServerPort]
            /\ \E s \in 1..Len(servers) : servers[s].bound /\ servers[s].port = liveServerPort
            /\ UNCHANGED <<liveServer, liveServerPort, wss, servers>>
            /\ OwnBound' = OwnBound]_vars

C15_Witness ==
  \E c \in Callers :
    callers[c].pc = "done" /\ callers[c].port = 0 /\ callers[c].ret = liveServerPort

\* C16: every port that findAvailablePort returns, that a server is created
\* on and that ensureLiveServer records or returns lies in
\* SERVER_PORT_START..SERVER_PORT_END.
C16_PortInRange ==
  /\ \A c \in Callers :
       /\ callers[c].pc \in {"found", "listening", "bindError"} => callers[c].port \in Ports
       /\ callers[c].ret # 0 => callers[c].ret \in Ports
  /\ \A s \in 1..Len(servers) : servers[s].port \in Ports
  /\ liveServerPort # 0 => liveServerPort \in Ports

C16_Witness ==
  \E c \in Callers : callers[c].pc = "done" /\ callers[c].ret = SERVER_PORT_END

\* C17: when other processes hold every port of the range, no call of
\* findAvailablePort finds a port, and every call ends by throwing after it
\* has tried the last port.
C17_ExhaustedRangeFails ==
  /\ [](extBound = Ports =>
          \A c \in Callers : callers[c].pc \in {"idle", "probeFailed", "failed"})
  /\ \A c \in Callers :
       (extBound = Ports /\ callers[c].pc = "probeFailed") ~> (callers[c].pc = "failed")

C17_Witness ==
  /\ extBound = Ports
  /\ \E c \in Callers : callers[c].pc = "failed"

\* Port q was taken when a caller other than c could have found it free: held
\* by another process, or probed or bound by another call of this process.
TakenFor(c, q) ==
  \/ q \in extBound
  \/ \E s \in 1..Len(servers) : servers[s].port = q
  \/ \E d \in Callers \ {c} : callers[d].pc \in {"probing", "found"} /\ callers[d].port = q

\* C18: findAvailablePort probes SERVER_PORT_START first and after a failed
\* probe the next higher port, a probe succeeds exactly when the port is free,
\* the port returned is the one whose probe just succeeded, and every lower
\* port of the range was taken.
C18_AscendingFirstFree ==
  [][\A c \in Callers :
       LET a == callers[c]
           b == callers'[c]
       IN /\ (b # a /\ b.pc \in {"probing", "probeFailed"})
               => /\ \/ a.pc = "idle" /\ b.port = SERVER_PORT_START
                     \/ a.pc = "probeFailed" /\ b.port = a.port + 1
                  /\ b.pc = "probing" <=> PortFree(b.port)
          /\ (b # a /\ b.pc = "found")
               => /\ a.pc = "probing" /\ b.port = a.port
                  /\ b.port \notin extBound
                  /\ \A q \in SERVER_PORT_START..(b.port - 1) : TakenFor(c, q)]_vars

C18_Witness ==
  \E c \in Callers :
    /\ callers[c].pc = "found"
    /\ callers[c].port = SERVER_PORT_END
    /\ extBound = Ports \ {SERVER_PORT_END}

\* C19: a call of ensureLiveServer that ends with "no available ports" gives
\* its caller the error and no port, and neither its probes nor its failure
\* change the server handle, the push-server handle, the recorded port or the
\* servers; when the whole range is held by others these are all still null.
C19_FailureLeavesNoServerState ==
  [][/\ \A c \in Callers :
          LET a == callers[c]
              b == callers'[c]
          IN (b # a /\ b.pc \in {"probing", "probeFailed", "failed"})
               => /\ UNCHANGED <<liveServer, wss, liveServerPort, servers>>
                  /\ b.pc = "failed" => (b.ret = 0 /\ b.port = 0)
     /\ extBound = Ports
          => (liveServer' = 0 /\ wss' = 0 /\ liveServerPort' = 0 /\ servers' = <<>>)]_vars

C19_Witness ==
  /\ \E c \in Callers : callers[c].pc = "failed" /\ callers[c].ret = 0
  /\ liveServer = 0 /\ wss = 0 /\ liveServerPort = 0

\* The step in which a call of closeLiveServer returns.
CloseCompletes ==
  \/ CloseBegin /\ closer' = "idle"
  \/ closer # "idle" /\ closer' = "idle"

C21_ShutdownIdempotent ==
  [][(CloseBegin /\ liveServer = 0 /\ wss = 0)
       => /\ closer' = "idle" /\ ~crashed'
          /\ liveServer' = 0 /\ wss' = 0 /\ liveServerPort' = 0
          /\ diagrams' = EmptyMap /\ watchers' = EmptyMap
          /\ servers' = servers /\ conns' = conns]_vars

C21_Witness ==
  /\ closer = "idle" /\ liveServer = 0 /\ wss = 0 /\ liveServerPort = 0
  /\ Len(servers) = 0
  /\ nWatchers > 0 /\ watchers = EmptyMap /\ diagrams = EmptyMap

\* The step handles DELETE /api/diagrams/id and deletes the files of id.
DeleteStep(id) ==
  /\ http'.req = [method |-> "DELETE", url |-> "/api/diagrams/" \o id]
  /\ http'.res.status = 200
  /\ disk' # disk

\* C22: removing a session closes its watcher and discards its registry
\* entry and leaves the connections attached to it as they are. The only
\* removal the server offers is DELETE /api/diagrams/{id}.
C22_RemoveDiscardsSession ==
  [][\A id \in DOMAIN diagrams :
       DeleteStep(id) => /\ id \notin DOMAIN diagrams'
                         /\ diagrams[id].watcher \notin DOMAIN watchers'
                         /\ conns' = conns]_vars

\* C23: a session named "view" or "api" is never served by the fallback
\* route: a request for /view or /api is not answered with the live preview
\* page of that session.
C23_ReservedNamesNotServedByFallback ==
  \A name \in {"view", "api"} :
    http.req.url = "/" \o name
      => ~(http.res.handler = "handleLivePreviewRequest" /\ http.res.status = 200)

\* C24: an ID that contains "/", ".." or a null byte is rejected before it
\* is used: the handler of a request with such an ID hands no path to the
\* filesystem and looks nothing up in the registry.
C24_UnsafeIdNeverUsed ==
  (\E part \in {"/", "..", NUL} : Includes(http.res.id, part))
    => (http.res.read = {} /\ http.res.looked = {})

\* C25: on every route that takes an ID, an ID that fails the charset
\* ^[A-Za-z0-9_-]+$ is answered with a 4xx status and a body that says the
\* ID is invalid.
C25_InvalidIdAnswered400 ==
  (/\ http.res.handler \in {"handleViewRequest", "handleLivePreviewRequest",
                            "handleMermaidLiveRequest", "handleApiDiagramDelete"}
   /\ http.req.url # "/api/diagrams"
   /\ ~ValidatePreviewId(http.res.id))
    => /\ http.res.status \in 400..499
       /\ http.res.body \in {"Invalid diagram ID", "Diagram ID is required"}

\* C26: a request that reaches the fallback route with an ID that is not
\* registered is answered 404, whatever the state of the files.
C26_UnregisteredIdIs404 ==
  (/\ http.res.handler = "handleLivePreviewRequest"
   /\ http.res.id \notin DOMAIN diagrams)
    => http.res.status = 404

C26_Witness ==
  /\ http.res.handler = "handleLivePreviewRequest"
  /\ http.res.id \notin DOMAIN diagrams
  /\ http.res.status = 404
  /\ DOMAIN diagrams # {}

\* C27: every page answered 200 by the live preview route or by the static
\* view route carries a Content-Security-Policy header that contains
\* default-src 'none' and connect-src 'self' with the ws://localhost scheme.
C27_PagesCarryCsp ==
  (/\ http.res.handler \in {"handleViewRequest", "handleLivePreviewRequest"}
   /\ http.res.status = 200)
    => /\ Includes(http.res.csp, "default-src 'none'")
       /\ Includes(http.res.csp, "connect-src 'self' ws://localhost:")

C27_Witness ==
  /\ http.res.handler = "handleViewRequest"
  /\ http.res.status = 200
  /\ http.res.ctype = "text/html"
  /\ http.res.csp = CSP_HEADER

\* C28: every request is answered: whatever a handler throws is turned
\* into a response at the request handler, and the process goes on.
C28_EveryRequestAnswered ==
  http.req.url # "" => (http.res.status # 0 /\ ~crashed)

C28_Witness ==
  /\ http.res.status = 500
  /\ http.res.body = "Server error"
  /\ ~crashed

\* C29: the page served by /view/{id} is static: when its script runs it
\* opens no push-channel connection, so no connection is added anywhere.
C29_StaticViewOpensNoConnection ==
  [][(PageInit /\ http.res.handler = "handleViewRequest")
       => (conns' = conns /\ http'.page = "static")]_vars

C29_Witness ==
  /\ http.res.handler = "handleViewRequest"
  /\ http.page = "static"
  /\ http.res.id \in DOMAIN diagrams

\* C30: registration refuses an ID outside the safe-character policy, so
\* every ID in the registry matches ^[A-Za-z0-9_-]+$.
C30_RegistryHoldsValidIds ==
  \A id \in DOMAIN diagrams : ValidatePreviewId(id)

\* C31: only a rendered svg leads to a live preview: while no diagram.svg
\* was rendered no server is started or being started, and a diagram that
\* has no diagram.svg is neither registered nor shown in a browser tab,
\* whatever was rendered as png or pdf.
C31_LivePreviewForSvgOnly ==
  /\ (\A id \in IDs : Join(id, "diagram.svg") \notin disk)
       => /\ Len(servers) = 0 /\ liveServer = 0 /\ wss = 0
          /\ \A c \in Callers : callers[c].pc = "idle"
  /\ \A id \in IDs :
       Join(id, "diagram.svg") \notin disk
         => /\ id \notin DOMAIN diagrams
            /\ \A t \in TabIds : tabs[t].st # "none" => tabs[t].id # id
            /\ \A r \in RenderIds : renders[r].id # id

C31_Witness ==
  /\ \A id \in IDs : Join(id, "diagram.svg") \notin disk
  /\ \E id \in IDs : Join(id, "diagram.png") \in disk /\ Join(id, "diagram.pdf") \in disk
  /\ Len(servers) = 0
  /\ diagrams = EmptyMap

\* C32: matchRoute returns the entry of ROUTE_CONFIG with the least index
\* whose path equals the URL (exact entries) or is a prefix of it (the
\* others), and null when there is none.
C32_MatchRouteFirstMatch ==
  http.req.url # ""
    => LET url == http.req.url
           hits == {i \in 1..Len(ROUTE_CONFIG) :
                      \/ ROUTE_CONFIG[i].exact /\ url = ROUTE_CONFIG[i].path
                      \/ ~ROUTE_CONFIG[i].exact
                           /\ Len(url) >= Len(ROUTE_CONFIG[i].path)
                           /\ \A n \in 1..Len(ROUTE_CONFIG[i].path) :
                                SubSeq(url, n, n) = SubSeq(ROUTE_CONFIG[i].path, n, n)}
       IN IF hits = {}
            THEN http.res.handler = ""
            ELSE \E i \in hits : /\ \A j \in hits : i <= j
                                 /\ http.res.handler = ROUTE_CONFIG[i].handler

C32_Witness ==
  /\ http.req.url = "/api/diagrams?search=test"
  /\ http.res.handler = "handleApiDiagramDelete"

\* C33: when another process takes the port the probe selected before the
\* real server binds, the call of ensureLiveServer ends by throwing an error:
\* the next step of a call whose bind failed is its failure, and the process
\* does not end.
C33_BindFailureSurfaced ==
  [][\A c \in Callers :
       (callers[c].pc = "bindError" /\ (callers'[c] # callers[c] \/ crashed' # crashed))
         => (callers'[c].pc = "failed" /\ ~crashed')]_vars

\* C34: closeLiveServer always terminates: a shutdown that has begun ends,
\* whether or not the viewers attached to the server ever disconnect.
C34_ShutdownTerminates == (closer # "idle") ~> (closer = "idle")

\* C35: a port returned by ensureLiveServer belongs to a server that is bound
\* at the moment of the return, also while a shutdown is in progress.
C35_ReturnedPortIsBound ==
  [][\A c \in Callers :
       (callers[c].pc # "done" /\ callers'[c].pc = "done")
         => \E s \in 1..Len(servers') :
              servers'[s].port = callers'[c].ret /\ servers'[s].bound]_vars

\* C36: when a connection that was attached before the session's current
\* registration closes, it leaves the connection set of the current entry,
\* and hasActiveConnections of the session is false afterwards if it was the
\* only connection of that set.
C36_EarlierConnectionLeavesCurrentSet ==
  [][\A id \in IDs, k \in ConnIds :
       (/\ AttachedBeforeUpdate(k, id)
        /\ conns[k].st # "closed"
        /\ conns'[k].st = "closed"
        /\ id \in DOMAIN diagrams')
         => /\ k \notin Clients(diagrams[id].clients)'
            /\ (Clients(diagrams[id].clients) = {k} => ~HasActiveConnections(id)')]_vars

\* The only viewer of a session, attached before the current registration,
\* has begun to close.
C36_Witness ==
  \E id \in IDs, k \in ConnIds :
    /\ AttachedBeforeUpdate(k, id)
    /\ Clients(diagrams[id].clients) = {k}
    /\ HasActiveConnections(id)
    /\ conns[k].st = "closing"

\* C37: every session of the registry has a watcher that is not closed; a
\* re-registration whose new watcher cannot be installed leaves no entry
\* with a closed watcher.
C37_RegisteredWatcherOpen ==
  \A id \in DOMAIN diagrams : diagrams[id].watcher \in DOMAIN watchers

\* C38: a change event of session A's file sends the reload to connections
\* attached to A only; connections attached to another session get nothing.
C38_ReloadStaysInSession ==
  [][\A w \in DOMAIN watchers :
       WatcherChange(w) =>
         \A k \in ConnIds : conns'[k] # conns[k] => conns[k].url = watchers[w]]_vars

\* Two open viewers of two registered sessions, of which one got a reload.
C38_Witness ==
  \E k, j \in ConnIds :
    /\ conns[k].st = "open" /\ conns[j].st = "open"
    /\ conns[k].set # 0 /\ conns[j].set # 0
    /\ conns[k].url # conns[j].url
    /\ conns[k].ord = 1 /\ conns[j].ord = 1
    /\ conns[k].recv = 1 /\ conns[j].recv = 0

\* The connections of the page that are open in the page and attached to a
\* session on the server.
PageAttached == {k \in ConnIds : wsState.sock[k] = "open" /\ conns[k].st = "open" /\ conns[k].set # 0}

\* C39: the page makes at most 30 reconnection attempts without a connection
\* opening in between, and then stops: at the limit the timer, once cleared,
\* is not started again before a connection opens.
C39_ReconnectAttemptsBounded ==
  /\ [](wsState.attempts <= maxReconnectAttempts)
  /\ [][(/\ wsState.attempts = maxReconnectAttempts
         /\ ~wsState.reconnectInterval
         /\ wsState'.attempts # 0)
          => (~wsState'.reconnectInterval /\ wsState'.attempts = maxReconnectAttempts)]_vars

\* The page has made its 30 attempts, the last one has failed and the timer
\* is cleared.
C39_Witness ==
  /\ wsState.attempts = maxReconnectAttempts
  /\ ~wsState.reconnectInterval
  /\ \A k \in ConnIds : wsState.sock[k] = "none"

\* C40: one page has at most one open connection attached on the server at
\* any time; the reconnection timer never gives it a second one.
C40_OneConnectionPerPage == Cardinality(PageAttached) <= 1

\* C6: the browser is launched for a diagram only when no tab shows that
\* diagram: a re-render of a diagram that has a viewer tab opens no other.
C6_NoSecondTab ==
  [][\A t \in TabIds :
       (tabs[t].st = "none" /\ tabs'[t].st # "none")
         => \A u \in TabIds : tabs[u].st # "none" => tabs[u].id # tabs'[t].id]_vars

====
